---- MODULE Spec2Model ----
(***************************************************************************)
(* The MCP gateway of mcp-server/app/mcp_server/server.py: the tool        *)
(* registry, its refresh pass (health probe, discovery probe,              *)
(* registration), the tool-list handler and the tool-invocation handler    *)
(* with its candidate endpoints and its metrics.                           *)
(*                                                                         *)
(* The gateway runs on one asyncio event loop: a handler runs without      *)
(* interruption until it awaits an outbound HTTP call, and other requests  *)
(* run while it waits for the answer.  One action of this model is         *)
(* therefore the code between two outbound calls: it consumes the answer   *)
(* of the call the request waits for, runs the code up to the next         *)
(* outbound call and issues that call.  The answer of a backend is drawn   *)
(* from the answers an HTTP server can give.                               *)
(***************************************************************************)
EXTENDS Integers, Sequences, FiniteSets, TLC

(***************************************************************************)
(* Bounds of the model.                                                    *)
(***************************************************************************)
MaxRequests == 2     \* inbound requests served after startup
MaxLen == 2          \* length of a tool list a backend reports
MaxChecks == 3       \* health requests served by the middleware
MaxTextLen == 3      \* length of the body of GET /current-time
MaxChats == 2        \* chat requests served by the middleware
MaxContentLen == 3   \* length of an answer of the language model, in tokens

RequestIds == {"r1", "r2"}    \* requests in flight at the same time

(***************************************************************************)
(* Static data of server.py.                                               *)
(***************************************************************************)
None == "none"
NoResponse == 0      \* the call raised: timeout or connection failure

ServiceOrder == <<"time-client", "code-executor">>
ServiceNames == {ServiceOrder[i] : i \in 1..Len(ServiceOrder)}
SERVICES ==
  [s \in ServiceNames |->
     IF s = "time-client" THEN "http://time-client:8003"
                          ELSE "http://code-executor:8002"]

Tools == {"get_current_time", "execute_python"}

discovery_endpoints == <<"/tools", "/mcp/tools", "/api/tools">>

endpoints_to_try ==
  <<"POST /mcp/tools/{tool}", "POST /tools/{tool}", "POST /{tool}", "POST /execute">>

current_time_endpoint == "GET /current-time"

(***************************************************************************)
(* Answers of the backends.                                                *)
(***************************************************************************)
RECURSIVE SeqsUpTo(_, _)
SeqsUpTo(S, n) ==
  IF n = 0 THEN {<<>>}
  ELSE LET shorter == SeqsUpTo(S, n - 1)
       IN  shorter \cup {Append(s, x) : s \in shorter, x \in S}

ToolLists == SeqsUpTo(Tools, MaxLen)

Quote == "\""
Texts == SeqsUpTo({Quote, "t"}, MaxTextLen)

HealthResponses == [status : {200, 503, NoResponse}]

DiscoveryResponses ==
  [status : {200}, shape : {"list", "tools"}, tools : ToolLists]
    \cup [status : {200}, shape : {"other", "invalid"}, tools : {<<>>}]
    \cup [status : {404, NoResponse}, shape : {"invalid"}, tools : {<<>>}]

PostResponses ==
  [status : {200}, json : {"valid", "invalid"}]
    \cup [status : {404, 500, NoResponse}, json : {"invalid"}]

GetResponses ==
  [status : {200}, text : Texts]
    \cup [status : {500, NoResponse}, text : {<<>>}]

(***************************************************************************)
(* Python dict operations.                                                 *)
(***************************************************************************)
EmptyDict == [k \in {} |-> None]

Put(d, k, v) == [x \in (DOMAIN d) \cup {k} |-> IF x = k THEN v ELSE d[x]]

(***************************************************************************)
(* State.                                                                  *)
(***************************************************************************)
VARIABLES
  tool_registry,          \* tool name -> service name
  available_tools_cache,  \* tool name -> [name, service, url]
  tool_execution_count,   \* Counter, by <<tool_name, status>>
  tool_execution_time,    \* Histogram: observations per tool_name
  ready,                  \* the startup event has completed
  req,                    \* the requests in flight, by id
  started,                \* inbound requests accepted so far
  returned,               \* outcomes handed to callers, by <<tool_name, outcome>>
  last,                   \* what the step just taken completed, if anything
  health_state,           \* middleware: service -> [status, last_check]
  checks,                 \* middleware: the health requests in flight
  chats,                  \* middleware: the chat requests in flight
  workspace,              \* the files of each workspace directory
  sandbox,                \* what the request just served by an executor did
  installs                \* sandbox: the packages pip has been started for

gateway_vars ==
  <<tool_registry, available_tools_cache, tool_execution_count,
    tool_execution_time, ready, req, started, returned, last>>

middleware_vars == <<health_state, checks, chats>>

sandbox_vars == <<workspace, sandbox, installs>>

vars == <<gateway_vars, middleware_vars, sandbox_vars>>

Labels == Tools \X {"success", "error"}

NoResult ==
  [status |-> 0, success |-> FALSE, output |-> <<>>, raw |-> <<>>, names |-> {},
   tool |-> None, service |-> None, paths |-> <<>>]

Idle ==
  [kind |-> None, tool_name |-> None, pc |-> "idle", svc |-> 0, ep |-> 0,
   service_name |-> None, missed |-> FALSE, refreshes |-> 0,
   attempted |-> <<>>, firstOk |-> 0, response |-> NoResult,
   overlapped |-> FALSE,
   checked |-> {}, healthy |-> {}, probed |-> {}, listed |-> {},
   found |-> [s \in ServiceNames |-> {}],
   sawOk |-> FALSE, tools |-> <<>>]

InPass(q) == q.pc \in {"health", "discover"}

Keys(d) == DOMAIN d

Reported(q) == UNION {q.found[s] : s \in ServiceNames}

(***************************************************************************)
(* discover_service_tools: one probe per candidate path, in order.         *)
(***************************************************************************)
\* The answer is a success status with a list, or with an object that has a
\* tools field.
Answered(resp) == resp.status = 200 /\ resp.shape \in {"list", "tools"}

\* The service names discover_service_tools is called with: the two of the
\* catalog and names outside it.
ServiceArgs ==
  {"time-client", "code-executor", "my-time-client", "billing",
   "time-client-code-executor"}

\* A string as the sequence of its characters.
Chars(name) ==
  CASE name = "time-client" ->
            <<"t", "i", "m", "e", "-", "c", "l", "i", "e", "n", "t">>
       [] name = "code-executor" ->
            <<"c", "o", "d", "e", "-", "e", "x", "e", "c", "u", "t", "o", "r">>
       [] name = "my-time-client" ->
            <<"m", "y", "-", "t", "i", "m", "e", "-", "c", "l", "i", "e", "n", "t">>
       [] name = "billing" ->
            <<"b", "i", "l", "l", "i", "n", "g">>
       [] name = "time-client-code-executor" ->
            <<"t", "i", "m", "e", "-", "c", "l", "i", "e", "n", "t", "-", "c", "o", "d", "e", "-", "e", "x", "e", "c", "u", "t", "o", "r">>

\* part in name (the substring test of Python)
Contains(part, name) ==
  LET p == Chars(part)
      n == Chars(name)
  IN  \E i \in 0..Len(n) :
        i + Len(p) <= Len(n) /\ SubSeq(n, i + 1, i + Len(p)) = p

\* A variant of StaticTools that knows no backend.
StaticToolsNone(service_name) == <<>>

\* The known tools of a backend whose list endpoints all failed.
StaticTools(service_name) ==
  IF Contains("time-client", service_name) THEN <<"get_current_time">>
  ELSE IF Contains("code-executor", service_name) THEN <<"execute_python">>
  ELSE <<>>

\* What discover_service_tools returns on the answer that ends its loop: the
\* list of the answer, or the known tools after the last candidate failed.
DiscoveryResult(service_name, resp) ==
  IF Answered(resp) THEN resp.tools ELSE StaticTools(service_name)

\* The loop over the candidate paths ends at the first answer that holds a
\* tool list, or after the last candidate.
DiscoveryEnds(q, resp) == Answered(resp) \/ q.ep = Len(discovery_endpoints)

\* The loop goes on to the next candidate path; sawOk remembers that an
\* earlier candidate of this backend answered 200.
NextProbe(q, resp) ==
  [q EXCEPT !.ep = @ + 1, !.sawOk = @ \/ resp.status = 200]

(***************************************************************************)
(* refresh_tool_registry.                                                  *)
(***************************************************************************)
\* A variant of HealthGate that accepts any answer of the backend.
HealthGateAnyAnswer(resp) == resp.status # NoResponse

\* The pass goes on to discovery only after a 200 from /health.
HealthGate(resp) == resp.status = 200

CacheEntry(tool, service_name) ==
  [name |-> tool, service |-> service_name, url |-> SERVICES[service_name]]

\* A variant of RegisterTools that keeps the owner a name already has.
RECURSIVE RegisterToolsKeepFirst(_, _, _)
RegisterToolsKeepFirst(reg, tools, service_name) ==
  IF tools = <<>> THEN reg
  ELSE RegisterToolsKeepFirst(
         IF Head(tools) \in DOMAIN reg THEN reg ELSE Put(reg, Head(tools), service_name),
         Tail(tools), service_name)

\* A variant of RegisterTools that registers the first name of the list only.
RegisterToolsFirstOnly(reg, tools, service_name) ==
  IF tools = <<>> THEN reg ELSE Put(reg, Head(tools), service_name)

\* for tool in tools: tool_registry[tool] = service_name
RECURSIVE RegisterTools(_, _, _)
RegisterTools(reg, tools, service_name) ==
  IF tools = <<>> THEN reg
  ELSE RegisterTools(Put(reg, Head(tools), service_name), Tail(tools), service_name)

\* A variant of CacheTools that caches the first name of the list only.
CacheToolsFirstOnly(cache, tools, service_name) ==
  IF tools = <<>> THEN cache
  ELSE Put(cache, Head(tools), CacheEntry(Head(tools), service_name))

\* for tool in tools: available_tools_cache[tool] = {...}
RECURSIVE CacheTools(_, _, _)
CacheTools(cache, tools, service_name) ==
  IF tools = <<>> THEN cache
  ELSE CacheTools(Put(cache, Head(tools), CacheEntry(Head(tools), service_name)),
                  Tail(tools), service_name)

\* A variant of Cleared that keeps the entries.
NotCleared(reg) == reg

\* A variant of Cleared that keeps the entry of get_current_time.
ClearedButTime(reg) == [t \in DOMAIN reg \cap {"get_current_time"} |-> reg[t]]

\* tool_registry.clear()
Cleared(reg) == EmptyDict

(***************************************************************************)
(* execute_tool: resolution and the first outbound call.                   *)
(***************************************************************************)
ListResult(reg) == [NoResult EXCEPT !.status = 200, !.names = Keys(reg)]

NotFound(q, reg) ==
  [NoResult EXCEPT !.status = 404, !.tool = q.tool_name, !.names = Keys(reg)]

\* A variant of Exhausted that answers as if the tool were not registered.
ExhaustedAsNotFound(q) == [NoResult EXCEPT !.status = 404, !.tool = q.tool_name]

\* The detail of the 500: the tool name and the service name.
Exhausted(q) ==
  [NoResult EXCEPT !.status = 500, !.tool = q.tool_name, !.service = q.service_name]

BackendResult == [NoResult EXCEPT !.status = 200, !.output = <<"json">>]

RECURSIVE LStrip(_)
LStrip(text) ==
  IF text # <<>> /\ Head(text) = Quote THEN LStrip(Tail(text)) ELSE text

RECURSIVE RStrip(_)
RStrip(text) ==
  IF text # <<>> /\ text[Len(text)] = Quote
  THEN RStrip(SubSeq(text, 1, Len(text) - 1))
  ELSE text

\* A variant of Strip that leaves the closing quotes in place.
StripLeft(text) == LStrip(text)

\* response.text.strip('"')
Strip(text) == RStrip(LStrip(text))

TimeResult(text) ==
  [NoResult EXCEPT !.status = 200, !.success = TRUE, !.output = Strip(text),
                   !.raw = text]

\* The generic loop: the first POST candidate.
FirstPost(q) ==
  [q EXCEPT !.pc = "post", !.ep = 1, !.attempted = Append(@, endpoints_to_try[1])]

\* The answer of GET /current-time: a 200 returns the stripped text; after
\* any other answer the handler leaves the if block and reaches the generic
\* loop.
AfterGet(q, resp) ==
  IF resp.status = 200
  THEN [q EXCEPT !.pc = "done", !.firstOk = Len(q.attempted),
                 !.response = TimeResult(resp.text)]
  ELSE FirstPost(q)

\* A variant of AfterPost that gives up at the first server error.
AfterPostFailFast(q, resp) ==
  LET ok == resp.status = 200
      parsed == ok /\ resp.json = "valid"
      q1 == [q EXCEPT !.firstOk = IF ok /\ @ = 0 THEN Len(q.attempted) ELSE @]
  IN  IF parsed THEN [q1 EXCEPT !.pc = "done", !.response = BackendResult]
      ELSE IF q.ep = Len(endpoints_to_try) \/ resp.status = 500
      THEN [q1 EXCEPT !.pc = "done", !.response = Exhausted(q)]
      ELSE [q1 EXCEPT !.ep = @ + 1,
                      !.attempted = Append(@, endpoints_to_try[q.ep + 1])]

\* A variant of AfterPost that issues a candidate again when its call raised.
AfterPostRetrying(q, resp) ==
  LET ok == resp.status = 200
      parsed == ok /\ resp.json = "valid"
      q1 == [q EXCEPT !.firstOk = IF ok /\ @ = 0 THEN Len(q.attempted) ELSE @]
  IN  IF parsed THEN [q1 EXCEPT !.pc = "done", !.response = BackendResult]
      ELSE IF resp.status = NoResponse
      THEN [q1 EXCEPT !.attempted = Append(@, endpoints_to_try[q.ep])]
      ELSE IF q.ep = Len(endpoints_to_try)
      THEN [q1 EXCEPT !.pc = "done", !.response = Exhausted(q)]
      ELSE [q1 EXCEPT !.ep = @ + 1,
                      !.attempted = Append(@, endpoints_to_try[q.ep + 1])]

\* The answer of one POST candidate: a 200 whose body parses returns it; a
\* 404, any other status, a raised call and a 200 whose body does not parse
\* all go on to the next candidate; after the last one the handler raises
\* the 500.
AfterPost(q, resp) ==
  LET ok == resp.status = 200
      parsed == ok /\ resp.json = "valid"
      q1 == [q EXCEPT !.firstOk = IF ok /\ @ = 0 THEN Len(q.attempted) ELSE @]
  IN  IF parsed THEN [q1 EXCEPT !.pc = "done", !.response = BackendResult]
      ELSE IF q.ep = Len(endpoints_to_try)
      THEN [q1 EXCEPT !.pc = "done", !.response = Exhausted(q)]
      ELSE [q1 EXCEPT !.ep = @ + 1,
                      !.attempted = Append(@, endpoints_to_try[q.ep + 1])]

\* service_name = tool_registry[tool_name]; then the first outbound call.
Dispatch(q, reg) ==
  LET q1 == [q EXCEPT !.service_name = reg[q.tool_name]]
  IN  IF q.tool_name = "get_current_time"
      THEN [q1 EXCEPT !.pc = "get", !.attempted = <<current_time_endpoint>>]
      ELSE FirstPost(q1)

\* A variant of Resolve that refreshes again while the name is absent.
ResolveRetrying(q, reg) ==
  IF q.tool_name \notin Keys(reg)
  THEN [q EXCEPT !.pc = "health", !.svc = 1, !.ep = 0, !.refreshes = @ + 1]
  ELSE Dispatch(q, reg)

\* The second lookup: 404 when the name is still absent.
Resolve(q, reg) ==
  IF q.tool_name \notin Keys(reg)
  THEN [q EXCEPT !.pc = "done", !.response = NotFound(q, reg)]
  ELSE Dispatch(q, reg)

\* What the caller of refresh_tool_registry does when the pass returns.
AfterRefresh(q, reg) ==
  LET q1 == [q EXCEPT !.svc = 0, !.ep = 0]
  IN  CASE q.kind = "startup" -> [q1 EXCEPT !.pc = "done"]
        [] q.kind = "list" -> [q1 EXCEPT !.pc = "done", !.response = ListResult(reg)]
        [] q.kind = "exec" -> Resolve(q1, reg)

\* The end of one iteration of the loop over SERVICES.
NextService(q, reg) ==
  IF q.svc < Len(ServiceOrder)
  THEN [q EXCEPT !.svc = @ + 1, !.pc = "health", !.ep = 0,
                 !.sawOk = FALSE, !.tools = <<>>]
  ELSE AfterRefresh(q, reg)

\* The state of a request that has entered refresh_tool_registry: the maps
\* are cleared and the health probe of the first service is in flight.
EnterRefresh(q, r) ==
  [q EXCEPT !.pc = "health", !.svc = 1, !.refreshes = @ + 1,
            !.overlapped = \E x \in RequestIds \ {r} : InPass(req[x])]

\* The other requests, when request r enters a pass with state q.
WithPass(r, q) ==
  [x \in RequestIds |->
     IF x = r THEN q
     ELSE IF InPass(req[x]) THEN [req[x] EXCEPT !.overlapped = TRUE]
     ELSE req[x]]

\* What a request remembers of its pass is dropped when the pass returns.
ForgetPass(q) ==
  [q EXCEPT !.overlapped = FALSE, !.checked = {}, !.healthy = {}, !.probed = {},
            !.listed = {}, !.found = [s \in ServiceNames |-> {}],
            !.sawOk = FALSE, !.tools = <<>>]

Bump(counter, label) == [counter EXCEPT ![label] = @ + 1]

\* The outcome handed to the caller when request state q2 is final.
Account(q2) ==
  IF q2.kind = "exec" /\ q2.pc = "done"
  THEN Bump(returned,
            <<q2.tool_name, IF q2.response.status = 200 THEN "success" ELSE "error">>)
  ELSE returned

\* The record of a step: pass tells that the step ended a refresh pass, q is
\* the request as the step left it (pc = "done": the response went out).
NoEvent == [pass |-> FALSE, q |-> Idle]

\* Request r moves from state q to state q2.  A finished request leaves the
\* gateway; a pass that has returned leaves only the registry behind.
Settle(r, q, q2) ==
  /\ req' = [req EXCEPT ![r] = IF q2.pc = "done" THEN Idle
                               ELSE IF InPass(q2) THEN q2 ELSE ForgetPass(q2)]
  /\ last' = IF q2.pc = "done" \/ (InPass(q) /\ ~InPass(q2))
             THEN [pass |-> InPass(q), q |-> q2]
             ELSE NoEvent
  /\ ready' = (ready \/ (q2.kind = "startup" /\ q2.pc = "done"))
  /\ returned' = Account(q2)

Free(r) == req[r].pc = "idle"

(***************************************************************************)
(* The middleware: health_state and check_service_health.                  *)
(***************************************************************************)
CheckIds == {"h1", "h2"}      \* health requests in flight at the same time

\* The services check_service_health probes, in its order.
MiddlewareServices == <<"mcp_server", "ollama">>

Unchecked == 0       \* last_check is None

NoProbe == [service |-> None, status |-> NoResponse]

\* A variant of ServiceStatus that forgets the status when the probe raised.
ServiceStatusUnknownOnError(resp) ==
  IF resp.status = 200 THEN "healthy"
  ELSE IF resp.status = NoResponse THEN "unknown"
  ELSE "unhealthy"

\* "healthy" if response.status_code == 200 else "unhealthy"; the except
\* branch writes "unhealthy".
ServiceStatus(resp) == IF resp.status = 200 THEN "healthy" ELSE "unhealthy"

(***************************************************************************)
(* The middleware: chat.  An answer of the language model is a sequence of *)
(* tokens: the two tags, a JSON object that names a tool, a JSON object    *)
(* without a name, and text that is not JSON.                              *)
(***************************************************************************)
ChatIds == {"c1", "c2"}       \* chat requests in flight at the same time

OpenTag == "<tool_request>"
CloseTag == "</tool_request>"
NamedCall == "{\"name\": \"get_current_time\"}"
Unnamed == "{}"
Tokens == {OpenTag, CloseTag, NamedCall, Unnamed, "hi"}

Contents == SeqsUpTo(Tokens, MaxContentLen)

\* client.chat.completions.create returns a message or raises.
LlmAnswers == [ok : {TRUE}, content : Contents] \cup {[ok |-> FALSE, content |-> <<>>]}

\* "<tool_request>" in response_content
HasToolRequest(content) == \E i \in 1..Len(content) : content[i] = OpenTag

\* text.split(tag)[0]
RECURSIVE Before(_, _)
Before(text, tag) ==
  IF text = <<>> \/ Head(text) = tag THEN <<>>
  ELSE <<Head(text)>> \o Before(Tail(text), tag)

\* What follows the first tag in text.
RECURSIVE After(_, _)
After(text, tag) ==
  IF text = <<>> THEN <<>>
  ELSE IF Head(text) = tag THEN Tail(text) ELSE After(Tail(text), tag)

\* response_content.split("<tool_request>")[1].split("</tool_request>")[0]
ToolRequestText(content) == Before(Before(After(content, OpenTag), OpenTag), CloseTag)

\* json.loads(tool_request), then tool_request_data["name"].
ParseToolRequest(text) ==
  IF Len(text) = 1 /\ text[1] = NamedCall
  THEN [error |-> "none", name |-> "get_current_time"]
  ELSE IF Len(text) = 1 /\ text[1] = Unnamed
  THEN [error |-> "KeyError", name |-> None]
  ELSE [error |-> "JSONDecodeError", name |-> None]

\* A chat request: its position, whether request.messages is empty, the
\* calls it has issued, and its response once the handler has returned.
ChatIdle ==
  [pc |-> "idle", empty |-> FALSE, tool_name |-> None, llm_calls |-> 0,
   tool_calls |-> 0, status |-> 0, response |-> <<>>]

\* raise HTTPException(status_code=500, ...)
ChatError(q) == [q EXCEPT !.pc = "done", !.status = 500]

\* The messages of the follow-up are built (request.messages[-1] raises on
\* an empty list), then the model is called the second time.
FollowUp(q) ==
  IF q.empty THEN ChatError(q)
  ELSE [q EXCEPT !.pc = "llm2", !.llm_calls = @ + 1]

\* The first answer of the model: without the tag it is the response; with
\* it, the request is cut out and parsed, and the tool is posted to the
\* gateway.  A request that is not JSON becomes the tool response.
AfterFirstAnswer(q, answer) ==
  LET parsed == ParseToolRequest(ToolRequestText(answer.content))
  IN  IF ~answer.ok THEN ChatError(q)
      ELSE IF ~HasToolRequest(answer.content)
      THEN [q EXCEPT !.pc = "done", !.status = 200, !.response = answer.content]
      ELSE IF parsed.error = "KeyError" THEN ChatError(q)
      ELSE IF parsed.error = "JSONDecodeError" THEN FollowUp(q)
      ELSE [q EXCEPT !.pc = "tool", !.tool_name = parsed.name,
                     !.tool_calls = @ + 1]

\* The answer of the gateway: any status, and a 200 whose body does not
\* parse, becomes the tool response; a call that raised ends the handler.
AfterTool(q, resp) ==
  IF resp.status = NoResponse THEN ChatError(q) ELSE FollowUp(q)

\* A variant of AfterFollowUp that treats the answer like the first one.
AfterFollowUpAgain(q, answer) == AfterFirstAnswer(q, answer)

\* The second answer of the model is the response, whatever it contains.
AfterFollowUp(q, answer) ==
  IF ~answer.ok THEN ChatError(q)
  ELSE [q EXCEPT !.pc = "done", !.status = 200, !.response = answer.content]

(***************************************************************************)
(* The executors: sandbox/app/main.py and CodeExecutionTool.  A string of  *)
(* the request is the sequence of its characters.                          *)
(***************************************************************************)
\* The two implementations of execute_code, each with its own workspace.
Executors == {"sandbox", "tool"}

code_file == "temp.py"

UpperCase ==
  <<"A", "B", "C", "D", "E", "F", "G", "H", "I", "J", "K", "L", "M", "N",
    "O", "P", "Q", "R", "S", "T", "U", "V", "W", "X", "Y", "Z">>

LowerCase ==
  <<"a", "b", "c", "d", "e", "f", "g", "h", "i", "j", "k", "l", "m", "n",
    "o", "p", "q", "r", "s", "t", "u", "v", "w", "x", "y", "z">>

Digits == {"0", "1", "2", "3", "4", "5", "6", "7", "8", "9"}

\* crypto-locker, pythonapi, python-api, system, snake
BLOCKED_PACKAGES ==
  {<<"c", "r", "y", "p", "t", "o", "-", "l", "o", "c", "k", "e", "r">>,
   <<"p", "y", "t", "h", "o", "n", "a", "p", "i">>,
   <<"p", "y", "t", "h", "o", "n", "-", "a", "p", "i">>,
   <<"s", "y", "s", "t", "e", "m">>,
   <<"s", "n", "a", "k", "e">>}

\* cryptography, crypto, requests, urllib3, socket, subprocess
SUSPICIOUS_PACKAGES ==
  {<<"c", "r", "y", "p", "t", "o", "g", "r", "a", "p", "h", "y">>,
   <<"c", "r", "y", "p", "t", "o">>,
   <<"r", "e", "q", "u", "e", "s", "t", "s">>,
   <<"u", "r", "l", "l", "i", "b", "3">>,
   <<"s", "o", "c", "k", "e", "t">>,
   <<"s", "u", "b", "p", "r", "o", "c", "e", "s", "s">>}

\* The characters of [a-zA-Z0-9\-_\.]
PatternChars ==
  {UpperCase[i] : i \in 1..Len(UpperCase)} \cup {LowerCase[i] : i \in 1..Len(LowerCase)}
    \cup Digits \cup {"-", "_", "."}

\* PACKAGE_NAME_PATTERN.match(package): one or more pattern characters up
\* to the end of the string; the $ of Python also matches before a newline
\* that ends the string.
Matches(package) ==
  LET n == Len(package)
      body == IF n > 0 /\ package[n] = "\n" THEN SubSeq(package, 1, n - 1)
              ELSE package
  IN  body # <<>> /\ \A i \in 1..Len(body) : body[i] \in PatternChars

\* str.lower()
Lower(text) ==
  [i \in 1..Len(text) |->
     IF \E k \in 1..Len(UpperCase) : UpperCase[k] = text[i]
     THEN LowerCase[CHOOSE k \in 1..Len(UpperCase) : UpperCase[k] = text[i]]
     ELSE text[i]]

\* A variant of validate_package_name without the approval list.
validate_package_name_unscrutinised(package) ==
  IF Lower(package) \in BLOCKED_PACKAGES THEN "blocked"
  ELSE IF ~Matches(package) THEN "invalid"
  ELSE "ok"

\* validate_package_name: the HTTPException it raises, or "ok".
validate_package_name(package) ==
  IF Lower(package) \in BLOCKED_PACKAGES THEN "blocked"
  ELSE IF ~Matches(package) THEN "invalid"
  ELSE IF Lower(package) \in SUSPICIOUS_PACKAGES THEN "approval"
  ELSE "ok"

\* pip_cmd: the fixed arguments and the requirement, pinned unless the
\* version is "latest".
pip_cmd(package, version) ==
  [argv |-> <<"pip", "install", "--no-cache-dir">>, package |-> package,
   pin |-> IF version # "latest" THEN version ELSE None]

NoCommand == [argv |-> <<>>, package |-> <<>>, pin |-> None]

\* The package names of the requests: numpy, my_pkg-1.0, snake, SNAKE,
\* requests, Requests, os;rm, requests followed by a newline, and the empty
\* string.
Packages ==
  {<<"n", "u", "m", "p", "y">>,
   <<"m", "y", "_", "p", "k", "g", "-", "1", ".", "0">>,
   <<"s", "n", "a", "k", "e">>,
   <<"S", "N", "A", "K", "E">>,
   <<"r", "e", "q", "u", "e", "s", "t", "s">>,
   <<"R", "e", "q", "u", "e", "s", "t", "s">>,
   <<"o", "s", ";", "r", "m">>,
   <<"r", "e", "q", "u", "e", "s", "t", "s", "\n">>,
   <<>>}

Versions == {"latest", "1.0"}

\* What subprocess.run of pip does: exit code 0, another exit code, or a
\* raised TimeoutExpired or OSError.
PipOutcomes == {"installed", "failed", "raised"}

\* What happens to an execution: write_text raises; the interpreter exits
\* (with any code); it runs into the 5 s timeout; subprocess.run raises
\* another error; the interpreter exits after the code removed temp.py.
ExecOutcomes == {"unwritable", "exited", "timeout", "oserror", "unlinked"}

NoRequest ==
  [op |-> None, executor |-> None, package |-> <<>>, version |-> None,
   validation |-> None, command |-> NoCommand, outcome |-> None,
   status |-> 0, success |-> FALSE]

(***************************************************************************)
(* Actions.                                                                *)
(***************************************************************************)
Init ==
  /\ tool_registry = EmptyDict
  /\ available_tools_cache = EmptyDict
  /\ tool_execution_count = [l \in Labels |-> 0]
  /\ tool_execution_time = [t \in Tools |-> 0]
  /\ ready = FALSE
  /\ req = [r \in RequestIds |-> Idle]
  /\ started = 0
  /\ returned = [l \in Labels |-> 0]
  /\ last = NoEvent
  /\ health_state = [s \in {MiddlewareServices[i] : i \in 1..Len(MiddlewareServices)} |->
                       [status |-> "unknown", last_check |-> Unchecked]]
  /\ checks = [pc |-> [h \in CheckIds |-> 0], started |-> 0, now |-> 0,
               event |-> NoProbe]
  /\ chats = [slot |-> [c \in ChatIds |-> ChatIdle], started |-> 0,
              event |-> ChatIdle]
  /\ workspace = [e \in Executors |-> {}]
  /\ sandbox = NoRequest
  /\ installs = {}

\* A variant of NeedsRefresh that refreshes on every list request.
NeedsRefreshAlways(cache) == TRUE

\* if not available_tools_cache
NeedsRefresh(cache) == cache = EmptyDict

\* The caller enters refresh_tool_registry with request state q.
Refresh(r, q) ==
  /\ tool_registry' = Cleared(tool_registry)
  /\ available_tools_cache' = Cleared(available_tools_cache)
  /\ req' = WithPass(r, EnterRefresh(q, r))
  /\ last' = NoEvent
  /\ UNCHANGED <<ready, returned>>

\* startup_event: the first pass, before any request is served.
Startup(r) ==
  /\ ~ready
  /\ \A x \in RequestIds : req[x].pc = "idle"
  /\ Refresh(r, [Idle EXCEPT !.kind = "startup"])
  /\ UNCHANGED <<tool_execution_count, tool_execution_time, started>>
  /\ UNCHANGED <<middleware_vars, sandbox_vars>>

\* GET /mcp/tools
GetAvailableTools(r) ==
  /\ ready
  /\ Free(r)
  /\ started < MaxRequests
  /\ started' = started + 1
  /\ LET q == [Idle EXCEPT !.kind = "list", !.missed = (tool_registry = EmptyDict)]
     IN  IF NeedsRefresh(available_tools_cache)
         THEN Refresh(r, q)
         ELSE /\ Settle(r, q, [q EXCEPT !.pc = "done",
                                        !.response = ListResult(tool_registry)])
              /\ UNCHANGED <<tool_registry, available_tools_cache>>
  /\ UNCHANGED <<tool_execution_count, tool_execution_time>>
  /\ UNCHANGED <<middleware_vars, sandbox_vars>>

\* POST /mcp/tools/{tool_name}: the first lookup.
ExecuteTool(r, tool_name) ==
  /\ ready
  /\ Free(r)
  /\ started < MaxRequests
  /\ started' = started + 1
  /\ LET q == [Idle EXCEPT !.kind = "exec", !.tool_name = tool_name]
     IN  IF tool_name \notin Keys(tool_registry)
         THEN Refresh(r, [q EXCEPT !.missed = TRUE])
         ELSE /\ Settle(r, q, Resolve(q, tool_registry))
              /\ UNCHANGED <<tool_registry, available_tools_cache>>
  /\ UNCHANGED <<tool_execution_count, tool_execution_time>>
  /\ UNCHANGED <<middleware_vars, sandbox_vars>>

\* The answer of GET {service_url}/health.
HealthResponse(r, resp) ==
  LET q  == req[r]
      s  == ServiceOrder[q.svc]
      q1 == [q EXCEPT !.checked = @ \cup {s},
                      !.healthy = IF resp.status = 200 THEN @ \cup {s} ELSE @]
      q2 == IF HealthGate(resp)
            THEN [q1 EXCEPT !.probed = @ \cup {s}, !.pc = "discover", !.ep = 1]
            ELSE NextService(q1, tool_registry)
  IN  /\ q.pc = "health"
      /\ Settle(r, q, q2)
      /\ UNCHANGED <<tool_registry, available_tools_cache, tool_execution_count,
                     tool_execution_time, started>>
      /\ UNCHANGED <<middleware_vars, sandbox_vars>>

\* The answer of GET {service_url}{discovery_endpoints[ep]}; with the tools
\* in hand the pass registers them before it awaits again.
DiscoverResponse(r, resp) ==
  LET q == req[r]
      s == ServiceOrder[q.svc]
      tools == DiscoveryResult(s, resp)
      reg2 == RegisterTools(tool_registry, tools, s)
      cache2 == CacheTools(available_tools_cache, tools, s)
      q1 == [q EXCEPT !.found[s] = {tools[i] : i \in 1..Len(tools)},
                      !.listed = IF Answered(resp) THEN @ \cup {s} ELSE @,
                      !.tools = tools]
  IN  /\ q.pc = "discover"
      /\ IF DiscoveryEnds(q, resp)
         THEN /\ tool_registry' = reg2
              /\ available_tools_cache' = cache2
              /\ Settle(r, q, NextService(q1, reg2))
         ELSE /\ Settle(r, q, NextProbe(q, resp))
              /\ UNCHANGED <<tool_registry, available_tools_cache>>
      /\ UNCHANGED <<tool_execution_count, tool_execution_time, started>>
      /\ UNCHANGED <<middleware_vars, sandbox_vars>>

\* The answer of GET {service_url}/current-time.
GetResponse(r, resp) ==
  LET q == req[r]
      ok == resp.status = 200
      q2 == AfterGet(q, resp)
  IN  /\ q.pc = "get"
      /\ Settle(r, q, q2)
      /\ tool_execution_count' =
           IF ok THEN Bump(tool_execution_count, <<q.tool_name, "success">>)
                 ELSE tool_execution_count
      /\ tool_execution_time' =
           IF ok THEN Bump(tool_execution_time, q.tool_name) ELSE tool_execution_time
      /\ UNCHANGED <<tool_registry, available_tools_cache, started>>
      /\ UNCHANGED <<middleware_vars, sandbox_vars>>

\* The answer of the POST to endpoints_to_try[ep].
PostResponse(r, resp) ==
  LET q == req[r]
      ok == resp.status = 200
      q2 == AfterPost(q, resp)
      c1 == IF ok THEN Bump(tool_execution_count, <<q.tool_name, "success">>)
            ELSE tool_execution_count
      c2 == IF q2.pc = "done" /\ q2.response.status = 500
            THEN Bump(c1, <<q.tool_name, "error">>) ELSE c1
  IN  /\ q.pc = "post"
      /\ Settle(r, q, q2)
      /\ tool_execution_count' = c2
      /\ tool_execution_time' =
           IF q2.pc = "done" THEN Bump(tool_execution_time, q.tool_name)
           ELSE tool_execution_time
      /\ UNCHANGED <<tool_registry, available_tools_cache, started>>
      /\ UNCHANGED <<middleware_vars, sandbox_vars>>

\* A call discover_service_tools(service_name, service_url) on its own: the
\* first candidate path is in flight.
DiscoverServiceTools(r, service_name) ==
  /\ \A x \in RequestIds : Free(x)
  /\ r = "r1"
  /\ req' = [req EXCEPT ![r] = [Idle EXCEPT !.kind = "discover", !.pc = "discover",
                                            !.service_name = service_name, !.ep = 1]]
  /\ last' = NoEvent
  /\ UNCHANGED <<tool_registry, available_tools_cache, tool_execution_count,
                 tool_execution_time, ready, started, returned>>
  /\ UNCHANGED <<middleware_vars, sandbox_vars>>

\* The answer of one candidate path to that call; the call returns its list
\* to the caller (last.q.tools) when the loop ends.
DiscoverReturn(r, resp) ==
  LET q == req[r]
      q1 == [q EXCEPT !.pc = "done",
                      !.tools = DiscoveryResult(q.service_name, resp),
                      !.listed = IF Answered(resp) THEN {q.service_name} ELSE {}]
  IN  /\ q.kind = "discover"
      /\ q.pc = "discover"
      /\ IF DiscoveryEnds(q, resp)
         THEN /\ req' = [req EXCEPT ![r] = Idle]
              /\ last' = [pass |-> FALSE, q |-> q1]
         ELSE /\ req' = [req EXCEPT ![r] = NextProbe(q, resp)]
              /\ last' = NoEvent
      /\ UNCHANGED <<tool_registry, available_tools_cache, tool_execution_count,
                     tool_execution_time, ready, started, returned>>
      /\ UNCHANGED <<middleware_vars, sandbox_vars>>

Next ==
  \/ \E r \in RequestIds : Startup(r)
  \/ \E r \in RequestIds : GetAvailableTools(r)
  \/ \E r \in RequestIds, t \in Tools : ExecuteTool(r, t)
  \/ \E r \in RequestIds, resp \in HealthResponses : HealthResponse(r, resp)
  \/ \E r \in RequestIds, resp \in DiscoveryResponses : DiscoverResponse(r, resp)
  \/ \E r \in RequestIds, resp \in GetResponses : GetResponse(r, resp)
  \/ \E r \in RequestIds, resp \in PostResponses : PostResponse(r, resp)

Spec == Init /\ [][Next]_vars

\* Every outbound call returns or times out (each httpx client has a
\* timeout): the answer of a call in flight is eventually handled.
Answers(r) ==
  \/ \E resp \in HealthResponses : HealthResponse(r, resp)
  \/ \E resp \in DiscoveryResponses : DiscoverResponse(r, resp)
  \/ \E resp \in GetResponses : GetResponse(r, resp)
  \/ \E resp \in PostResponses : PostResponse(r, resp)

\* Invocations served next to tool-list requests, whose passes may overlap
\* the pass of an invocation.
NextInvoke ==
  \/ Startup("r1")
  \/ \E t \in Tools : ExecuteTool("r1", t)
  \/ GetAvailableTools("r2")
  \/ \E r \in RequestIds : Answers(r)

FairInvoke ==
  Init /\ [][NextInvoke]_vars /\ \A r \in RequestIds : WF_vars(Answers(r))

(***************************************************************************)
(* The backends as their sources define them.                              *)
(***************************************************************************)
health_endpoint == "/health"

\* The method and the path segments of an outbound call of the gateway.
RequestLine(endpoint, tool_name) ==
  CASE endpoint = health_endpoint -> [method |-> "GET", path |-> <<"health">>]
    [] endpoint = "/tools" -> [method |-> "GET", path |-> <<"tools">>]
    [] endpoint = "/mcp/tools" -> [method |-> "GET", path |-> <<"mcp", "tools">>]
    [] endpoint = "/api/tools" -> [method |-> "GET", path |-> <<"api", "tools">>]
    [] endpoint = "GET /current-time" ->
         [method |-> "GET", path |-> <<"current-time">>]
    [] endpoint = "POST /mcp/tools/{tool}" ->
         [method |-> "POST", path |-> <<"mcp", "tools", tool_name>>]
    [] endpoint = "POST /tools/{tool}" ->
         [method |-> "POST", path |-> <<"tools", tool_name>>]
    [] endpoint = "POST /{tool}" -> [method |-> "POST", path |-> <<tool_name>>]
    [] endpoint = "POST /execute" -> [method |-> "POST", path |-> <<"execute">>]

\* The routes the source of each backend declares (@app.get, @app.post).
Routes(service_name) ==
  IF service_name = "time-client"
  THEN {[method |-> "GET", path |-> <<"current-time">>],
        [method |-> "GET", path |-> <<"health">>]}
  ELSE {[method |-> "POST", path |-> <<"execute-code">>],
        [method |-> "GET", path |-> <<"health">>]}

\* A backend answers 200 on a route it declares and 404 on any other.
RouteStatus(service_name, endpoint, tool_name) ==
  IF RequestLine(endpoint, tool_name) \in Routes(service_name) THEN 200 ELSE 404

\* health_check returns {"status": "healthy"}.
DeployedHealth(service_name) ==
  [status |-> RouteStatus(service_name, health_endpoint, None)]

\* No declared route returns a tool list.
DeployedList(service_name, endpoint) ==
  LET st == RouteStatus(service_name, endpoint, None)
  IN  [status |-> st, shape |-> IF st = 200 THEN "other" ELSE "invalid",
       tools |-> <<>>]

\* get_current_time returns a str, sent as a JSON string: the time in quotes.
DeployedGet(service_name) ==
  LET st == RouteStatus(service_name, current_time_endpoint, None)
  IN  [status |-> st, text |-> IF st = 200 THEN <<Quote, "t", Quote>> ELSE <<>>]

\* execute_code returns a dict.
DeployedPost(service_name, endpoint, tool_name) ==
  LET st == RouteStatus(service_name, endpoint, tool_name)
  IN  [status |-> st, json |-> IF st = 200 THEN "valid" ELSE "invalid"]

\* The gateway in front of time-client and code-executor as deployed: both
\* are up and answer every call as their routes say.
NextDeployed ==
  \/ \E r \in RequestIds : Startup(r)
  \/ \E r \in RequestIds : GetAvailableTools(r)
  \/ \E r \in RequestIds, t \in Tools : ExecuteTool(r, t)
  \/ \E r \in RequestIds :
       /\ req[r].pc = "health"
       /\ HealthResponse(r, DeployedHealth(ServiceOrder[req[r].svc]))
  \/ \E r \in RequestIds :
       /\ req[r].pc = "discover"
       /\ DiscoverResponse(r, DeployedList(ServiceOrder[req[r].svc],
                                           discovery_endpoints[req[r].ep]))
  \/ \E r \in RequestIds :
       /\ req[r].pc = "get"
       /\ GetResponse(r, DeployedGet(req[r].service_name))
  \/ \E r \in RequestIds :
       /\ req[r].pc = "post"
       /\ PostResponse(r, DeployedPost(req[r].service_name,
                                       endpoints_to_try[req[r].ep],
                                       req[r].tool_name))

SpecDeployed == Init /\ [][NextDeployed]_vars

\* discover_service_tools called with every service name of ServiceArgs.
NextDiscover ==
  \/ \E r \in RequestIds, n \in ServiceArgs : DiscoverServiceTools(r, n)
  \/ \E r \in RequestIds, resp \in DiscoveryResponses : DiscoverReturn(r, resp)

SpecDiscover == Init /\ [][NextDiscover]_vars

\* GET /health of the middleware: check_service_health starts and awaits
\* the answer of the first service.
HealthCheck(h) ==
  /\ checks.pc[h] = 0
  /\ checks.started < MaxChecks
  /\ checks' = [checks EXCEPT !.pc[h] = 1, !.started = @ + 1, !.event = NoProbe]
  /\ UNCHANGED <<health_state, chats, gateway_vars, sandbox_vars>>

\* The answer of the probe of one service (or its failure): the entry of the
\* service is written with the time of the write, then the next service is
\* probed or the handler returns.  event keeps the answer for one state.
ProbeAnswer(h, resp) ==
  LET k == checks.pc[h]
      s == MiddlewareServices[k]
  IN  /\ k \in 1..Len(MiddlewareServices)
      /\ health_state' =
           [health_state EXCEPT ![s] = [status |-> ServiceStatus(resp),
                                        last_check |-> checks.now + 1]]
      /\ checks' = [checks EXCEPT
                      !.pc[h] = IF k = Len(MiddlewareServices) THEN 0 ELSE k + 1,
                      !.now = @ + 1,
                      !.event = [service |-> s, status |-> resp.status]]
      /\ UNCHANGED <<chats, gateway_vars, sandbox_vars>>

NextMiddleware ==
  \/ \E h \in CheckIds : HealthCheck(h)
  \/ \E h \in CheckIds, resp \in HealthResponses : ProbeAnswer(h, resp)

SpecMiddleware == Init /\ [][NextMiddleware]_vars

\* client.chat.completions.create is a synchronous call inside the
\* coroutine: while a chat request waits for the model the event loop of the
\* middleware runs nothing else.
LoopFree == \A c \in ChatIds : chats.slot[c].pc \notin {"llm1", "llm2"}

\* Chat request c moves to state q2; a handler that has returned leaves the
\* middleware and event keeps its response for one state.
SettleChat(c, q2) ==
  /\ chats' = [chats EXCEPT
                 !.slot[c] = IF q2.pc = "done" THEN ChatIdle ELSE q2,
                 !.event = IF q2.pc = "done" THEN q2 ELSE ChatIdle]
  /\ UNCHANGED <<health_state, checks, gateway_vars, sandbox_vars>>

\* POST /chat: the messages are prepared and the model is called.
Chat(c, empty) ==
  /\ LoopFree
  /\ chats.slot[c].pc = "idle"
  /\ chats.started < MaxChats
  /\ chats' = [chats EXCEPT
                 !.slot[c] = [ChatIdle EXCEPT !.pc = "llm1", !.empty = empty,
                                              !.llm_calls = 1],
                 !.started = @ + 1,
                 !.event = ChatIdle]
  /\ UNCHANGED <<health_state, checks, gateway_vars, sandbox_vars>>

\* The first call of the model returns.
FirstAnswer(c, answer) ==
  /\ chats.slot[c].pc = "llm1"
  /\ SettleChat(c, AfterFirstAnswer(chats.slot[c], answer))

\* The POST to the gateway returns.
ToolAnswer(c, resp) ==
  /\ LoopFree
  /\ chats.slot[c].pc = "tool"
  /\ SettleChat(c, AfterTool(chats.slot[c], resp))

\* The second call of the model returns.
FinalAnswer(c, answer) ==
  /\ chats.slot[c].pc = "llm2"
  /\ SettleChat(c, AfterFollowUp(chats.slot[c], answer))

NextChat ==
  \/ \E c \in ChatIds, empty \in BOOLEAN : Chat(c, empty)
  \/ \E c \in ChatIds, answer \in LlmAnswers : FirstAnswer(c, answer)
  \/ \E c \in ChatIds, resp \in PostResponses : ToolAnswer(c, resp)
  \/ \E c \in ChatIds, answer \in LlmAnswers : FinalAnswer(c, answer)

SpecChat == Init /\ [][NextChat]_vars

\* POST /pip/install.  The handler runs without suspension: subprocess.run
\* blocks.  A body whose package is empty is refused by the request model
\* (422) before the handler; an exception of the validation or of the run
\* is caught and raised as a 400.
pip_install(package, version, outcome) ==
  LET v == validate_package_name(package)
      q == [NoRequest EXCEPT !.op = "pip_install", !.executor = "sandbox",
                             !.package = package, !.version = version]
  IN  /\ IF package = <<>>
         THEN /\ sandbox' = [q EXCEPT !.status = 422]
              /\ UNCHANGED installs
         ELSE IF v # "ok"
         THEN /\ sandbox' = [q EXCEPT !.validation = v, !.status = 400]
              /\ UNCHANGED installs
         ELSE /\ sandbox' = [q EXCEPT !.validation = v,
                                      !.command = pip_cmd(package, version),
                                      !.outcome = outcome,
                                      !.status = IF outcome = "raised" THEN 400 ELSE 200,
                                      !.success = (outcome = "installed")]
              /\ installs' = installs \cup {package}
      /\ UNCHANGED <<workspace, gateway_vars, middleware_vars>>

\* execute_code of executor e: temp.py is written, the interpreter runs, and
\* the file is removed on the path where the run completed.  The sandbox
\* answers a failure with a 400, the tool with ToolResult(success=False).
execute_code(e, outcome) ==
  LET written == IF outcome = "unwritable" THEN workspace[e]
                 ELSE workspace[e] \cup {code_file}
      files == CASE outcome = "exited" -> written \ {code_file}
                 [] outcome = "unlinked" -> written \ {code_file}
                 [] OTHER -> written
      ok == outcome = "exited"
  IN  /\ workspace' = [workspace EXCEPT ![e] = files]
      /\ sandbox' = [NoRequest EXCEPT !.op = "execute_code", !.executor = e,
                                      !.outcome = outcome,
                                      !.status = IF ok \/ e = "tool" THEN 200 ELSE 400,
                                      !.success = ok]
      /\ UNCHANGED <<installs, gateway_vars, middleware_vars>>

\* CodeExecutionTool.cleanup
cleanup(e) ==
  /\ e = "tool"
  /\ workspace' = [workspace EXCEPT ![e] = {}]
  /\ sandbox' = [NoRequest EXCEPT !.op = "cleanup", !.executor = e]
  /\ UNCHANGED <<installs, gateway_vars, middleware_vars>>

NextSandbox ==
  \/ \E p \in Packages, v \in Versions, o \in PipOutcomes : pip_install(p, v, o)
  \/ \E e \in Executors, o \in ExecOutcomes : execute_code(e, o)
  \/ \E e \in Executors : cleanup(e)

SpecSandbox == Init /\ [][NextSandbox]_vars

TypeOK ==
  /\ Keys(tool_registry) \subseteq Tools
  /\ \A t \in Keys(tool_registry) : tool_registry[t] \in ServiceNames
  /\ started \in 0..MaxRequests
  /\ \A r \in RequestIds :
       req[r].pc \in {"idle", "health", "discover", "get", "post"}

(***************************************************************************)
(* Properties.                                                             *)
(***************************************************************************)
\* The requests a state shows: those in flight and the one the step just
\* taken completed.
Observed == {req[r] : r \in RequestIds} \cup {last.q}

Range(f) == {f[i] : i \in DOMAIN f}

IsPrefix(a, b) == Len(a) <= Len(b) /\ a = SubSeq(b, 1, Len(a))

\* The outbound calls an invocation of the tool may make, in order.
Candidates(tool) ==
  IF tool = "get_current_time" THEN <<current_time_endpoint>> \o endpoints_to_try
  ELSE endpoints_to_try

\* C1: an invocation whose tool is absent from the registry runs exactly one
\* refresh pass (an invocation whose tool is present runs none); when that
\* pass returns, the invocation either answers 404 without any outbound
\* invocation call or has resolved the tool and issued its first candidate
\* call; no invocation is ever in a second pass.
C1_RefreshOnce ==
  \A q \in Observed :
    q.kind = "exec" =>
      /\ q.refreshes = (IF q.missed THEN 1 ELSE 0)
      /\ InPass(q) => q.missed /\ q.attempted = <<>>
      /\ (q.pc = "done" /\ q.response.status = 404) => q.missed /\ q.attempted = <<>>
      /\ (last.pass /\ q = last.q) =>
           \/ q.pc = "done" /\ q.response.status = 404
                /\ q.tool_name \notin Keys(tool_registry)
           \/ q.pc \in {"get", "post"} /\ Len(q.attempted) = 1
                /\ q.tool_name \in Keys(tool_registry)

\* C1 witness: an invocation of an absent tool has run its one pass and
\* answered 404.
C1_Witness ==
  /\ last.pass /\ last.q.kind = "exec" /\ last.q.missed
  /\ last.q.refreshes = 1
  /\ last.q.pc = "done" /\ last.q.response.status = 404

\* C2: the 500 of an invocation whose generic candidates all failed carries
\* the list of the four attempted paths.
C2_ExhaustedCarriesPaths ==
  (last.q.pc = "done" /\ last.q.response.status = 500)
    => last.q.response.paths = endpoints_to_try

\* C3: once the gateway serves requests, while one refresh pass is in
\* progress and no other pass overlaps it, the registry a list or a resolve
\* of another request reads is still the complete map from before the pass
\* (the new map appears only when the pass returns): no step that leaves
\* the pass in progress changes the registry.
C3_AtomicReplace ==
  [][\A r \in RequestIds :
       (ready /\ InPass(req'[r]) /\ ~req'[r].overlapped)
          => tool_registry' = tool_registry]_vars

\* C4: when a pass that no other pass overlapped returns, and in it every
\* backend answered its health probe with 200 and a list endpoint with a
\* tool list, the keys of the registry (and what the tool-list handler that
\* ran the pass returns) are exactly the names the backends reported.
C4_ListIsUnionOfReported ==
  (last.pass /\ ~last.q.overlapped /\ last.q.listed = ServiceNames) =>
     /\ Keys(tool_registry) = Reported(last.q)
     /\ last.q.kind = "list" => last.q.response.names = Reported(last.q)

\* C4 witness: a tool-list request has run such a pass and the backends
\* reported both tools.
C4_Witness ==
  /\ last.pass /\ ~last.q.overlapped /\ last.q.listed = ServiceNames
  /\ last.q.kind = "list"
  /\ Reported(last.q) = Tools
  /\ last.q.response.names = Tools

\* C5: for every tool the success counter equals the number of invocations
\* that returned success and the error counter the number that returned a
\* failure, whenever no invocation of the gateway is in its dispatch.
C5_CountersMatchOutcomes ==
  (\A r \in RequestIds : req[r].pc \notin {"get", "post"}) =>
     \A t \in Tools :
       /\ tool_execution_count[<<t, "success">>] = returned[<<t, "success">>]
       /\ tool_execution_count[<<t, "error">>] = returned[<<t, "error">>]

\* C6: when a pass returns in which time-client and code-executor both
\* reported a name, the registry and the cache map the name to
\* code-executor, the backend processed last.
C6_LastBackendWins ==
  last.pass =>
    \A t \in last.q.found["time-client"] \cap last.q.found["code-executor"] :
      /\ t \in Keys(tool_registry)
      /\ tool_registry[t] = "code-executor"
      /\ available_tools_cache[t].service = "code-executor"

\* C6 witness: a pass has returned in which both backends reported
\* execute_python.
C6_Witness ==
  /\ last.pass
  /\ "execute_python" \in last.q.found["time-client"] \cap last.q.found["code-executor"]
  /\ tool_registry["execute_python"] = "code-executor"

\* C7: in a pass, a backend whose health probe did not answer 200 gets no
\* discovery probe and reports nothing; the pass still probes every backend
\* of the catalog before it returns, and when no other pass overlapped it
\* every registry entry belongs to a backend that answered 200.
C7_UnhealthySkipped ==
  \A q \in Observed :
    /\ q.probed \subseteq q.healthy
    /\ q.pc = "discover" => ServiceOrder[q.svc] \in q.healthy
    /\ \A s \in ServiceNames \ q.healthy : q.found[s] = {} /\ s \notin q.listed
    /\ (last.pass /\ q = last.q) =>
         /\ q.checked = ServiceNames
         /\ ~q.overlapped => \A t \in Keys(tool_registry) : tool_registry[t] \in q.healthy

\* C7 witness: a pass has returned in which time-client failed its health
\* probe and code-executor was discovered and registered.
C7_Witness ==
  /\ last.pass /\ ~last.q.overlapped
  /\ last.q.checked = ServiceNames
  /\ last.q.healthy = {"code-executor"}
  /\ last.q.found["code-executor"] # {}
  /\ Keys(tool_registry) # {}

\* C8: the candidates of an invocation are attempted in the fixed order, and
\* once a candidate has answered with the success status no later candidate
\* is attempted.
C8_FirstSuccessFinal ==
  \A q \in Observed :
    /\ IsPrefix(q.attempted, Candidates(q.tool_name))
    /\ q.firstOk # 0 => Len(q.attempted) = q.firstOk

\* C9: a dispatched invocation returns a failure only as the 500 after every
\* candidate has been attempted, and it ends before the last candidate only
\* with a success.
C9_FailureOnlyAfterAllCandidates ==
  \A q \in Observed :
    (q.kind = "exec" /\ q.attempted # <<>>) =>
      /\ IsPrefix(q.attempted, Candidates(q.tool_name))
      /\ (q.pc = "done" /\ q.response.status # 200) =>
           q.response.status = 500 /\ q.attempted = Candidates(q.tool_name)
      /\ (q.pc = "done" /\ q.attempted # Candidates(q.tool_name)) =>
           q.response.status = 200

\* C9 witness: an invocation has returned the 500 after all four generic
\* candidates failed.
C9_Witness ==
  /\ last.q.pc = "done" /\ last.q.response.status = 500
  /\ last.q.firstOk = 0
  /\ last.q.attempted = endpoints_to_try

\* C10: an invocation of get_current_time never attempts a generic POST
\* candidate.
C10_TimeBypassesGeneric ==
  \A q \in Observed :
    q.tool_name = "get_current_time" =>
      Range(q.attempted) \cap Range(endpoints_to_try) = {}

\* The text out is the text raw without the quote characters around it.
Unquoted(raw, out) ==
  /\ \E i \in 0..Len(raw), j \in 0..Len(raw) :
       /\ i <= j
       /\ out = SubSeq(raw, i + 1, j)
       /\ \A k \in (1..i) \cup ((j + 1)..Len(raw)) : raw[k] = Quote
  /\ out # <<>> => Head(out) # Quote /\ out[Len(out)] # Quote

\* C11: when no list path of the time backend answers with a tool list, the
\* pass registers get_current_time for it from the static list; an
\* invocation of get_current_time whose GET /current-time is answered with
\* 200 has made that call only, returns success with the body without its
\* surrounding quote characters, and adds one to the success counter of the
\* tool and nothing to its error counter.
C11_TimeToolStaticAndGet ==
  [][\A r \in RequestIds :
       LET q == req[r]
           f == last'.q
       IN  /\ (q.pc = "discover" /\ ServiceOrder[q.svc] = "time-client"
                /\ req'[r].pc = "health" /\ "time-client" \notin req'[r].listed)
               => /\ req'[r].found["time-client"] = {"get_current_time"}
                  /\ "get_current_time" \in Keys(tool_registry')
                  /\ tool_registry'["get_current_time"] = "time-client"
           /\ (q.pc = "get" /\ req'[r].pc = "idle")
               => /\ f.tool_name = "get_current_time"
                  /\ f.attempted = <<current_time_endpoint>>
                  /\ f.response.status = 200
                  /\ f.response.success
                  /\ Unquoted(f.response.raw, f.response.output)
                  /\ tool_execution_count' =
                       [tool_execution_count
                          EXCEPT ![<<"get_current_time", "success">>] = @ + 1]
    ]_vars

\* A get_current_time invocation routed to time-client has returned the
\* body "t" (with its quotes) as t, after GET /current-time alone.
C11_Witness ==
  /\ last.q.pc = "done"
  /\ last.q.tool_name = "get_current_time"
  /\ last.q.service_name = "time-client"
  /\ last.q.attempted = <<current_time_endpoint>>
  /\ last.q.response.raw = <<Quote, "t", Quote>>
  /\ last.q.response.output = <<"t">>
  /\ tool_execution_count[<<"get_current_time", "success">>] = 1

\* C12: discovery of one backend probes /tools, /mcp/tools, /api/tools in
\* this order and takes the first answer with the success status: no
\* candidate is probed after a candidate of the same backend answered 200.
C12_FirstSuccessTaken ==
  \A r \in RequestIds :
    req[r].pc = "discover" =>
      /\ req[r].ep \in 1..Len(discovery_endpoints)
      /\ ~req[r].sawOk

\* C13: when no candidate path of a backend answers with a tool list,
\* discover_service_tools has probed all three paths and returns
\* [get_current_time] for time-client, [execute_python] for code-executor and
\* the empty list for a name it does not recognise; every failing answer (a
\* non-success status, a raised call, an unusable body) ends in a returned
\* list.
C13_StaticFallback ==
  LET q == last.q
  IN  (q.kind = "discover" /\ q.pc = "done" /\ q.listed = {}) =>
        /\ q.ep = Len(discovery_endpoints)
        /\ q.service_name = "time-client" => q.tools = <<"get_current_time">>
        /\ q.service_name = "code-executor" => q.tools = <<"execute_python">>
        /\ q.service_name = "billing" => q.tools = <<>>

\* The call for the unrecognised name billing has returned the empty list
\* after none of its candidate paths answered with a tool list.
C13_Witness ==
  /\ last.q.kind = "discover"
  /\ last.q.pc = "done"
  /\ last.q.listed = {}
  /\ last.q.service_name = "billing"
  /\ last.q.tools = <<>>

\* C14: a tool-list request runs a refresh pass exactly when the registry is
\* empty on its arrival (missed); with a non-empty registry it answers at once
\* with the keys of the registry, without a health or discovery probe.
C14_ListRefreshesIffEmpty ==
  /\ \A r \in RequestIds :
       (req[r].kind = "list" /\ InPass(req[r])) =>
         req[r].missed /\ req[r].refreshes = 1
  /\ LET q == last.q
     IN  (q.kind = "list" /\ q.pc = "done") =>
           /\ q.refreshes = (IF q.missed THEN 1 ELSE 0)
           /\ last.pass = q.missed
           /\ q.response.names = Keys(tool_registry)
           /\ ~q.missed => q.checked = {} /\ q.probed = {} /\ q.response.names # {}

\* A tool-list request that found both tools registered has been answered
\* without a pass.
C14_Witness ==
  /\ last.q.kind = "list"
  /\ last.q.pc = "done"
  /\ ~last.q.missed
  /\ last.q.refreshes = 0
  /\ last.q.response.names = {"get_current_time", "execute_python"}

\* C16: every invocation, whatever its outcome (success, unknown tool after
\* the refresh, all endpoints exhausted), increments an outcome counter of
\* its tool and records one latency observation: when no invocation is in
\* its dispatch, each tool has as many latency observations as invocations
\* answered, and at least as many counter increments.
C16_EveryOutcomeIsMetered ==
  (\A r \in RequestIds : req[r].pc \notin {"get", "post"}) =>
    \A t \in Tools :
      LET answered == returned[<<t, "success">>] + returned[<<t, "error">>]
      IN  /\ tool_execution_time[t] = answered
          /\ tool_execution_count[<<t, "success">>]
               + tool_execution_count[<<t, "error">>] >= answered

\* C15: every invocation is answered, provided each outbound call returns or
\* times out; the answer is a 200 body, a 404 or a 500; the invocation runs at
\* most one refresh pass and makes at most five outbound invocation calls
\* (GET /current-time and the four POST candidates), the 404 without any.
C15_InvocationTerminates ==
  /\ [](\A q \in Observed :
         q.kind = "exec" =>
           /\ q.refreshes <= 1
           /\ Len(q.attempted) <= 1 + Len(endpoints_to_try)
           /\ q.pc = "done" =>
                /\ q.response.status \in {200, 404, 500}
                /\ q.response.status = 404 => q.attempted = <<>>
                /\ q.response.status # 404 => q.attempted # <<>>)
  /\ \A r \in RequestIds :
       (req[r].kind = "exec" /\ req[r].pc # "idle")
         ~> (last.q.kind = "exec" /\ last.q.pc = "done")

\* An invocation of get_current_time has been answered 500 after one refresh
\* pass and five outbound calls.
C15_Witness ==
  /\ last.q.kind = "exec"
  /\ last.q.pc = "done"
  /\ last.q.refreshes = 1
  /\ Len(last.q.attempted) = 1 + Len(endpoints_to_try)
  /\ last.q.response.status = 500

\* C18: the list discover_service_tools returns for one backend holds no tool
\* name twice, whatever the list endpoint of the backend answered.
C18_NoDuplicateTools ==
  LET q == last.q
  IN  (q.kind = "discover" /\ q.pc = "done") =>
        \A i, j \in 1..Len(q.tools) : q.tools[i] = q.tools[j] => i = j

\* C17: the health status of each service the middleware tracks is unknown
\* at the start; an entry changes only in a step that handles the answer of
\* the health probe of its service; such a step sets healthy exactly when the
\* probe answered 200 and unhealthy on any other status and when the call
\* raised; a status that has left unknown never returns to it.
C17_HealthStatus ==
  /\ \A s \in Range(MiddlewareServices) : health_state[s].status = "unknown"
  /\ [][\A s \in Range(MiddlewareServices) :
          LET old == health_state[s]
              new == health_state'[s]
              event == checks'.event
          IN  /\ new # old => event.service = s
              /\ event.service = s =>
                   /\ new.status = "healthy" <=> event.status = 200
                   /\ new.status = "unhealthy" <=> event.status # 200
                   /\ new.last_check # Unchecked
              /\ old.status # "unknown" => new.status # "unknown"
       ]_vars

\* In a second round of checks mcp_server has failed its probe and ollama
\* has answered 200.
C17_Witness ==
  /\ health_state["mcp_server"].status = "unhealthy"
  /\ health_state["ollama"].status = "healthy"
  /\ checks.event = [service |-> "ollama", status |-> 200]
  /\ checks.now = 4
  /\ checks.started = 2

C20_TempFileRemoved ==
  sandbox.op = "execute_code" => code_file \notin workspace[sandbox.executor]

\* C21: refresh passes are not mutually excluded.  A pass returns with a
\* registry that lacks a tool the pass discovered only when another pass
\* was in progress at the same time (the clear of the other pass removed the
\* entry); the witness shows that this happens.
C21_LossOnlyByOverlap ==
  /\ (last.pass /\ ~(Reported(last.q) \subseteq Keys(tool_registry)))
       => last.q.overlapped
  /\ \A r \in RequestIds :
       (InPass(req[r]) /\ \E x \in RequestIds \ {r} : InPass(req[x]))
         => req[r].overlapped

\* The pass of one request has returned while the pass of another request
\* is still in progress: it had discovered get_current_time, the clear of
\* the later pass removed the entry, and the registry is empty.
C21_Witness ==
  /\ last.pass
  /\ last.q.overlapped
  /\ \E r \in RequestIds : InPass(req[r]) /\ req[r].overlapped
  /\ "get_current_time" \in Reported(last.q)
  /\ tool_registry = EmptyDict

\* C22: an invocation is answered 404 only if no backend that was healthy
\* all through the invocation provides the tool.  Taken where the health
\* probes made during the invocation are all in view: the invocation and one
\* request still in its pass are the only requests since startup, and every
\* health probe of both passes was answered 200.  Then the tool is not among
\* the names the pass of the invocation got from the backends.
C22_NoSpuriousNotFound ==
  LET q == last.q
  IN  (/\ q.kind = "exec" /\ q.pc = "done" /\ q.response.status = 404
       /\ started = 2
       /\ \E x \in RequestIds : InPass(req[x])
       /\ q.checked = ServiceNames /\ q.healthy = ServiceNames
       /\ \A x \in RequestIds : req[x].checked \subseteq req[x].healthy)
      => q.tool_name \notin Reported(q)

\* C23: with code-executor up and answering as its source declares (no list
\* endpoint), a pass registers execute_python for it from the static list,
\* and an invocation of execute_python is answered with success after a call
\* on a route that code-executor declares.
C23_FallbackKeepsExecutorUsable ==
  /\ last.pass =>
       /\ "code-executor" \notin last.q.listed
       /\ "execute_python" \in Keys(tool_registry)
       /\ tool_registry["execute_python"] = "code-executor"
  /\ (last.q.kind = "exec" /\ last.q.tool_name = "execute_python"
        /\ last.q.pc = "done") =>
       /\ last.q.response.status = 200
       /\ \E i \in 1..Len(last.q.attempted) :
            RequestLine(last.q.attempted[i], last.q.tool_name)
              \in Routes("code-executor")

\* C24: a pass starts from empty maps, so what was registered earlier is
\* gone; while no other pass overlaps it, and when it returns, every entry of
\* the registry and of the tools cache maps to a backend of the catalog that
\* answered the health probe of this pass with 200, and the tool list a
\* handler returns after such a pass names no tool of another backend.
C24_OnlyHealthyBackendsRemain ==
  [][/\ \A r \in RequestIds :
          (~InPass(req[r]) /\ InPass(req'[r])) =>
             /\ tool_registry' = EmptyDict
             /\ available_tools_cache' = EmptyDict
     /\ \A q \in {req'[r] : r \in RequestIds} \cup {last'.q} :
          ((InPass(q) \/ (last'.pass /\ q = last'.q)) /\ ~q.overlapped) =>
             /\ q.healthy \subseteq ServiceNames
             /\ \A t \in Keys(tool_registry') : tool_registry'[t] \in q.healthy
             /\ \A t \in Keys(available_tools_cache') :
                  available_tools_cache'[t].service \in q.healthy
             /\ (q.kind = "list" /\ q.pc = "done") =>
                  \A t \in q.response.names :
                    /\ t \in Keys(tool_registry')
                    /\ tool_registry'[t] \in q.healthy]_vars

\* C24 witness: get_current_time was registered (an invocation of it has
\* succeeded); a later pass that no other pass overlapped has returned in
\* which time-client failed its health probe and code-executor passed it,
\* and get_current_time is in neither map.
C24_Witness ==
  /\ last.pass /\ ~last.q.overlapped
  /\ last.q.healthy = {"code-executor"}
  /\ returned[<<"get_current_time", "success">>] > 0
  /\ Keys(tool_registry) = {"execute_python"}
  /\ Keys(available_tools_cache) = {"execute_python"}

\* C25: wherever the gateway can suspend, tool_registry and
\* available_tools_cache have the same keys, every tool name has one owner,
\* the owner is a key of SERVICES, and the cache entry of the name carries
\* the name, that owner as its service and the owner's URL.
C25_RegistryAndCacheAgree ==
  /\ Keys(tool_registry) = Keys(available_tools_cache)
  /\ \A t \in Keys(tool_registry) :
       /\ tool_registry[t] \in Keys(SERVICES)
       /\ Cardinality({s \in Keys(SERVICES) : tool_registry[t] = s}) = 1
       /\ available_tools_cache[t].service = tool_registry[t]
       /\ available_tools_cache[t] = CacheEntry(t, tool_registry[t])

\* C25 witness: a pass that another pass overlapped is suspended at an
\* outbound call, and the maps hold both tools with different owners.
C25_Witness ==
  /\ \E r \in RequestIds : InPass(req[r]) /\ req[r].overlapped
  /\ Keys(tool_registry) = Tools
  /\ tool_registry["get_current_time"] # tool_registry["execute_python"]
  /\ available_tools_cache["execute_python"].service = tool_registry["execute_python"]

\* C26: an invocation of a tool that the registry holds at its first lookup
\* starts no pass and goes straight to dispatch; none of its steps changes
\* tool_registry or available_tools_cache or issues a health or discovery
\* probe; it ends in success or in the 500, never in the 404, and in the 500
\* when no candidate was answered with the success status.
C26_HitNeverRefreshes ==
  [][\A r \in RequestIds :
       LET q  == req[r]
           q2 == IF req'[r].pc = "idle" THEN last'.q ELSE req'[r]
           Quiet(x) == /\ x.refreshes = 0
                       /\ x.checked = {}
                       /\ x.probed = {}
                       /\ ~InPass(x)
       IN  /\ (q.pc = "idle" /\ req'[r].kind = "exec"
                /\ req'[r].tool_name \in Keys(tool_registry)) =>
                 /\ ~req'[r].missed
                 /\ req'[r].pc \in {"get", "post"}
                 /\ req'[r].service_name = tool_registry[req'[r].tool_name]
                 /\ Quiet(req'[r])
                 /\ tool_registry' = tool_registry
                 /\ available_tools_cache' = available_tools_cache
           /\ (q.kind = "exec" /\ ~q.missed /\ req'[r] # q) =>
                 /\ q.pc \in {"get", "post"}
                 /\ Quiet(q2)
                 /\ tool_registry' = tool_registry
                 /\ available_tools_cache' = available_tools_cache
                 /\ q2.pc = "done" =>
                      /\ q2.response.status \in {200, 500}
                      /\ q2.firstOk = 0 => q2.response.status = 500]_vars

\* C26 witness: an invocation of execute_python that found the tool
\* registered has ended in the 500 after every candidate failed, without a
\* pass, and the tool is still registered.
C26_Witness ==
  /\ last.q.kind = "exec" /\ ~last.q.missed /\ last.q.pc = "done"
  /\ last.q.tool_name = "execute_python"
  /\ last.q.refreshes = 0
  /\ last.q.firstOk = 0
  /\ Len(last.q.attempted) = Len(endpoints_to_try)
  /\ last.q.response.status = 500
  /\ "execute_python" \in Keys(tool_registry)

\* C27: a chat request calls the language model at most twice and posts at
\* most one tool to the gateway, and it posts the tool only on the first
\* answer of the model: the step that receives the second answer ends the
\* handler without another call, whatever the answer contains.
C27_ChatCallsBounded ==
  [][\A c \in ChatIds :
       LET q  == chats.slot[c]
           q2 == IF chats'.slot[c].pc = "idle" THEN chats'.event
                 ELSE chats'.slot[c]
       IN  chats'.slot[c] # q =>
             /\ q2.llm_calls <= 2
             /\ q2.tool_calls <= 1
             /\ q2.tool_calls > q.tool_calls => q.pc = "llm1"
             /\ q2.llm_calls > q.llm_calls => q.pc \in {"idle", "llm1", "tool"}
             /\ q.pc = "llm2" =>
                  /\ q2.pc = "done"
                  /\ q2.llm_calls = 2
                  /\ q2.tool_calls = q.tool_calls]_vars

\* C27 witness: a chat request has returned after one tool and two calls of
\* the model, and its response, the second answer, holds a well-formed
\* request for a tool.
C27_Witness ==
  /\ chats.event.pc = "done"
  /\ chats.event.status = 200
  /\ chats.event.llm_calls = 2
  /\ chats.event.tool_calls = 1
  /\ HasToolRequest(chats.event.response)
  /\ ParseToolRequest(ToolRequestText(chats.event.response)).error = "none"

====
